---------------------------- MODULE Spec2Model ----------------------------
(***************************************************************************)
(* A model of MathTools' exact-arithmetic core: the Fraction class         *)
(* (src/fraction.py) and the Matrix class with get_inverse and gauss_elim  *)
(* (src/matrix.py).                                                        *)
(*                                                                         *)
(* Python values are records tagged with their type: an int is             *)
(* [type |-> "int", value |-> n], a Fraction is                            *)
(* [type |-> "Fraction", numerator |-> n, denominator |-> d], a raised     *)
(* exception is [type |-> "ValueError"] and so on.  Python lists are       *)
(* objects with identity: the rows of a matrix live in `heap` and a matrix *)
(* holds the ids of its rows, so that two matrices may hold the same row.  *)
(***************************************************************************)
EXTENDS Integers, Sequences, FiniteSets, TLC

VARIABLES
    heap,   \* the list objects holding matrix rows: id -> sequence of values
    mats,   \* the program's matrix variables: name -> Matrix object or None
    last,   \* the last matrix operation: its name, receiver and outcome
    steps,  \* number of matrix operations performed
    fa,     \* a Fraction operand
    fb,     \* a second operand: a Fraction or an int
    fres,   \* the outcome of the last Fraction operation
    fop,    \* the name of the last Fraction operation
    gauss,  \* the frame of a running gauss_elim call: its locals and position
    pass    \* the frame of a running get_inverse call: its locals and position

vars == <<heap, mats, last, steps, fa, fb, fres, fop, gauss, pass>>

matrixVars == <<heap, mats, last, steps>>

fractionVars == <<fa, fb, fres, fop>>

gaussVars == <<gauss>>

inverseVars == <<pass>>

----------------------------------------------------------------------------
(* Bounds *)

\* Fraction operands are built from integers in -MaxNum..MaxNum.
MaxNum == 3

\* Exponents of Fraction.__pow__ range over -MaxExp..MaxExp.
MaxExp == 2

----------------------------------------------------------------------------
(* Python values *)

PyInt(n) == [type |-> "int", value |-> n]

\* A list handed back to the caller, by the values it holds.
PyList(items) == [type |-> "list", items |-> items]

None == [type |-> "None"]

TypeError == [type |-> "TypeError"]

ValueError == [type |-> "ValueError"]

IndexError == [type |-> "IndexError"]

IsInt(v) == v.type = "int"

IsFraction(v) == v.type = "Fraction"

IsException(v) == v.type \in {"TypeError", "ValueError", "IndexError"}

Abs(n) == IF n < 0 THEN -n ELSE n

\* A Python list built by a comprehension: the tuple of its elements.
Tup(f) == << >> \o f

\* F applied to the value of e: Python evaluates an expression once, when it
\* is bound to a name or passed to a call.
Eval(F(_), e) == CHOOSE r \in {F(x) : x \in {e}} : TRUE

\* math.gcd: the greatest common divisor of the magnitudes (Euclid).
RECURSIVE gcd(_, _)
gcd(a, b) == IF Abs(b) = 0 THEN Abs(a) ELSE gcd(Abs(b), Abs(a) % Abs(b))

\* Python's int ** non-negative int.
RECURSIVE IntPow(_, _)
IntPow(b, e) == IF e = 0 THEN 1 ELSE b * IntPow(b, e - 1)

----------------------------------------------------------------------------
(* class Fraction *)

\* Mutant of Fraction: the division by the gcd is left out.
Fraction_unreduced(numerator, denominator) ==
    IF denominator = 0 THEN ValueError
    ELSE LET n == IF denominator < 0 THEN numerator * (-1) ELSE numerator
             d == IF denominator < 0 THEN denominator * (-1) ELSE denominator
         IN  [type |-> "Fraction", numerator |-> n, denominator |-> d]

\* Fraction.__init__ as written: sign normalisation, then division by the gcd.
Fraction(numerator, denominator) ==
    IF denominator = 0 THEN ValueError
    ELSE LET n == IF denominator < 0 THEN numerator * (-1) ELSE numerator
             d == IF denominator < 0 THEN denominator * (-1) ELSE denominator
             g == gcd(n, d)
         IN  [type |-> "Fraction", numerator |-> n \div g, denominator |-> d \div g]

Fraction_from_number(number) == Fraction(number, 1)

Fraction_inverse_from(number) == Fraction(1, number)

Fraction_is_int(self) == self.denominator = 1

\* The `if isinstance(other, int): other = Fraction(other, 1)` prologue.
Coerce(other) == IF IsInt(other) THEN Fraction(other.value, 1) ELSE other

Fraction_abs(self) == Fraction(Abs(self.numerator), self.denominator)

Fraction_eq(self, other) ==
    IF ~IsInt(other) /\ ~IsFraction(other) THEN FALSE
    ELSE LET o == Coerce(other)
         IN  (self.numerator * o.denominator) = (self.denominator * o.numerator)

Fraction_bool(self) == self.numerator # 0

Fraction_lt(self, other) ==
    IF ~IsInt(other) /\ ~IsFraction(other) THEN TypeError
    ELSE LET o == Coerce(other)
         IN  (self.numerator * o.denominator) < (self.denominator * o.numerator)

Fraction_le(self, other) ==
    IF ~IsInt(other) /\ ~IsFraction(other) THEN TypeError
    ELSE LET o == Coerce(other)
         IN  (self.numerator * o.denominator) <= (self.denominator * o.numerator)

\* Mutant of Fraction_gt: >= in place of >.
Fraction_gt_nonstrict(self, other) ==
    IF ~IsInt(other) /\ ~IsFraction(other) THEN TypeError
    ELSE LET o == Coerce(other)
         IN  (self.numerator * o.denominator) >= (self.denominator * o.numerator)

Fraction_gt(self, other) ==
    IF ~IsInt(other) /\ ~IsFraction(other) THEN TypeError
    ELSE LET o == Coerce(other)
         IN  (self.numerator * o.denominator) > (self.denominator * o.numerator)

Fraction_ge(self, other) ==
    IF ~IsInt(other) /\ ~IsFraction(other) THEN TypeError
    ELSE LET o == Coerce(other)
         IN  (self.numerator * o.denominator) >= (self.denominator * o.numerator)

Fraction_add(self, other) ==
    IF ~IsInt(other) /\ ~IsFraction(other) THEN TypeError
    ELSE LET o == Coerce(other)
         IN  Fraction(self.numerator * o.denominator + self.denominator * o.numerator,
                      self.denominator * o.denominator)

Fraction_radd(self, other) == Fraction_add(self, other)

\* Mutant of Fraction_sub: the subtrahend's numerator is not scaled.
Fraction_sub_unscaled(self, other) ==
    IF ~IsInt(other) /\ ~IsFraction(other) THEN TypeError
    ELSE LET o == Coerce(other)
         IN  Fraction(self.numerator * o.denominator - o.numerator,
                      self.denominator * o.denominator)

Fraction_sub(self, other) ==
    IF ~IsInt(other) /\ ~IsFraction(other) THEN TypeError
    ELSE LET o == Coerce(other)
         IN  Fraction(self.numerator * o.denominator - self.denominator * o.numerator,
                      self.denominator * o.denominator)

Fraction_mul(self, other) ==
    IF IsInt(other) THEN Fraction(self.numerator * other.value, self.denominator)
    ELSE IF IsFraction(other)
         THEN Fraction(self.numerator * other.numerator, self.denominator * other.denominator)
         ELSE TypeError

Fraction_rmul(self, other) == Fraction_mul(self, other)

Fraction_neg(self) == Fraction_mul(self, PyInt(-1))

\* other - self
Fraction_rsub(self, other) == Fraction_add(Fraction_mul(self, PyInt(-1)), other)

\* Mutant of Fraction_truediv: the int branch multiplies as __mul__ does.
Fraction_truediv_as_mul(self, other) ==
    IF IsInt(other) THEN Fraction(self.numerator * other.value, self.denominator)
    ELSE IF IsFraction(other)
         THEN Fraction(self.numerator * other.denominator, self.denominator * other.numerator)
         ELSE TypeError

Fraction_truediv(self, other) ==
    IF IsInt(other) THEN Fraction(self.numerator, self.denominator * other.value)
    ELSE IF IsFraction(other)
         THEN Fraction(self.numerator * other.denominator, self.denominator * other.numerator)
         ELSE TypeError

\* other / self: the constructor's ValueError leaves before __mul__ is called.
Fraction_rtruediv(self, other) ==
    LET inv == Fraction(self.denominator, self.numerator)
    IN  IF IsException(inv) THEN inv ELSE Fraction_mul(inv, other)

\* `other` is a Python int here (its value is passed).
Fraction_pow(self, other) ==
    IF other >= 0
    THEN Fraction(IntPow(self.numerator, other), IntPow(self.denominator, other))
    ELSE Fraction(IntPow(self.denominator, other * (-1)), IntPow(self.numerator, other * (-1)))

Fraction_clone(self) == Fraction(self.numerator, self.denominator)

Fraction_pos(self) == Fraction_clone(self)

----------------------------------------------------------------------------
(* Python's arithmetic on cell values: int and Fraction operands, with the   *)
(* reflected Fraction method when the left operand is an int                 *)

PyAdd(a, b) ==
    IF IsInt(a) /\ IsInt(b) THEN PyInt(a.value + b.value)
    ELSE IF IsFraction(a) THEN Fraction_add(a, b) ELSE Fraction_radd(b, a)

PySub(a, b) ==
    IF IsInt(a) /\ IsInt(b) THEN PyInt(a.value - b.value)
    ELSE IF IsFraction(a) THEN Fraction_sub(a, b) ELSE Fraction_rsub(b, a)

PyMul(a, b) ==
    IF IsInt(a) /\ IsInt(b) THEN PyInt(a.value * b.value)
    ELSE IF IsFraction(a) THEN Fraction_mul(a, b) ELSE Fraction_rmul(b, a)

PyAbs(a) == IF IsInt(a) THEN PyInt(Abs(a.value)) ELSE Fraction_abs(a)

PyEq(a, b) ==
    IF IsInt(a) /\ IsInt(b) THEN a.value = b.value
    ELSE IF IsFraction(a) THEN Fraction_eq(a, b) ELSE Fraction_eq(b, a)

PyBool(a) == IF IsInt(a) THEN a.value # 0 ELSE Fraction_bool(a)

\* The position (from 1) a Python index selects in a list of length len;
\* a negative index counts from the end.  Outside 1..len: IndexError.
PyIndex(i, len) == IF i < 0 THEN len + i + 1 ELSE i + 1

\* list == list: same length and pairwise equal elements.
ListEq(x, y) == Len(x) = Len(y) /\ \A i \in 1..Len(x) : PyEq(x[i], y[i])

\* sum(...) of a sequence of values, starting from the int 0.
RECURSIVE PySumTo(_, _)
PySumTo(xs, k) == IF k = 0 THEN PyInt(0) ELSE PyAdd(PySumTo(xs, k - 1), xs[k])

PySum(xs) == PySumTo(xs, Len(xs))

Min(S) == CHOOSE x \in S : \A y \in S : x <= y

\* zip(*lines): one tuple per position present in every row.
ZipRows(lines) ==
    IF lines = << >> THEN << >>
    ELSE Tup([j \in 1..Min({Len(lines[i]) : i \in 1..Len(lines)}) |->
             Tup([i \in 1..Len(lines) |-> lines[i][j]])])

\* zip(x, y): the pairs up to the shorter length.
ZipLen(x, y) == IF Len(x) < Len(y) THEN Len(x) ELSE Len(y)

----------------------------------------------------------------------------
(* class Matrix: the computations, on the values of the rows *)

ZeroLines(n_lines, n_columns) == Tup([j \in 1..n_lines |-> Tup([i \in 1..n_columns |-> PyInt(0)])])

\* Matrix.identity: `matrix.lines[line-1][column-1] = 1` on the diagonal,
\* where index -1 is the last row and the last cell.
IdentityLines(n) ==
    Tup([r \in 1..n |-> Tup([c \in 1..n |->
        IF \E line \in 0..(n - 1) : PyIndex(line - 1, n) = r /\ PyIndex(line - 1, n) = c
        THEN PyInt(1) ELSE PyInt(0)])])

\* A variant that always drops the first cell.
Without_first(line, index) == Tail(line)

\* The row `line` without the cell at position index (from 1).
Without(line, index) ==
    Tup([k \in 1..(Len(line) - 1) |-> IF k < index THEN line[k] ELSE line[k + 1]])

\* Matrix.get_determinant on a square matrix whose rows hold the values L:
\* cofactor expansion over every cell of the first row.
RECURSIVE Determinant(_, _)
RECURSIVE DeterminantTerms(_, _, _)
Determinant(n_lines, L) ==
    IF n_lines = 1 THEN L[1][1]
    ELSE DeterminantTerms(n_lines, L, Len(L[1]))

\* result after the first `upto` cells of the first row were added.
DeterminantTerms(n_lines, L, upto) ==
    IF upto = 0 THEN PyInt(0)
    ELSE LET index == upto - 1
             value == L[1][upto]
             minor == Tup([k \in 1..(Len(L) - 1) |-> Without(L[k + 1], upto)])
             sign  == PyInt(IntPow(-1, index))
         IN  PyAdd(DeterminantTerms(n_lines, L, upto - 1),
                   PyMul(PyMul(sign, value),
                         Eval(LAMBDA new : Determinant(n_lines - 1, new), minor)))

get_determinant(n_lines, n_columns, L) ==
    IF n_lines # n_columns THEN TypeError ELSE Determinant(n_lines, L)

is_inversible(n_lines, n_columns, L) ==
    n_lines = n_columns /\ PyBool(get_determinant(n_lines, n_columns, L))

----------------------------------------------------------------------------
(* gauss_elim: the rows are copied (`elem[:]`), so it is a function of the   *)
(* values of the rows it is handed                                           *)

\* The conversion loop: ints become Fractions, Fractions are kept.
GaussConvert(v) == IF IsInt(v) THEN Fraction(v.value, 1) ELSE v

\* A variant of the scan that keeps the row at the cursor.
PivotScan_first(A, j, i, k, highest_val) == k

\* A variant of the scan that keeps the entry of smallest magnitude.
RECURSIVE PivotScan_smallest(_, _, _, _, _)
PivotScan_smallest(A, j, i, k, highest_val) ==
    IF i > Len(A) THEN k
    ELSE LET value == PyAbs(A[i][j])
         IN  IF Fraction_gt(highest_val, value)
             THEN PivotScan_smallest(A, j, i + 1, i, value)
             ELSE PivotScan_smallest(A, j, i + 1, k, highest_val)

\* The scan `for i in range(r+1, n_rows)` for the entry of greatest magnitude
\* in column j (positions from 1): the row found after rows up to i - 1 were
\* looked at, k being the best so far.
RECURSIVE PivotScan(_, _, _, _, _)
PivotScan(A, j, i, k, highest_val) ==
    IF i > Len(A) THEN k
    ELSE LET value == PyAbs(A[i][j])
         IN  IF Fraction_gt(value, highest_val)
             THEN PivotScan(A, j, i + 1, i, value)
             ELSE PivotScan(A, j, i + 1, k, highest_val)

\* A variant of the pivot step that leaves the pivot row where it was found.
GaussPivot_unswapped(A, r, j, k) ==
    LET k_col == A[k][j]
        normalised == [A EXCEPT ![k] = Tup([col \in 1..Len(A[k]) |-> Fraction_truediv(A[k][col], k_col)])]
    IN  Tup([i \in 1..Len(A) |->
            IF i # r
            THEN Tup([col \in 1..Len(normalised[i]) |->
                     Fraction_sub(normalised[i][col],
                                  Fraction_mul(normalised[r][col], normalised[i][j]))])
            ELSE normalised[i]])

\* A variant of the pivot step that leaves the pivot row undivided.
GaussPivot_unnormalised(A, r, j, k) ==
    LET swapped == IF k # r
                   THEN [A EXCEPT ![k] = A[r], ![r] = A[k]]
                   ELSE A
    IN  Tup([i \in 1..Len(A) |->
            IF i # r
            THEN Tup([col \in 1..Len(swapped[i]) |->
                     Fraction_sub(swapped[i][col], Fraction_mul(swapped[r][col], swapped[i][j]))])
            ELSE swapped[i]])

\* A variant of the pivot step that eliminates below the pivot row only.
GaussPivot_below(A, r, j, k) ==
    LET k_col == A[k][j]
        normalised == [A EXCEPT ![k] = Tup([col \in 1..Len(A[k]) |-> Fraction_truediv(A[k][col], k_col)])]
        swapped == IF k # r
                   THEN [normalised EXCEPT ![k] = normalised[r], ![r] = normalised[k]]
                   ELSE normalised
    IN  Tup([i \in 1..Len(A) |->
            IF i > r
            THEN Tup([col \in 1..Len(swapped[i]) |->
                     Fraction_sub(swapped[i][col], Fraction_mul(swapped[r][col], swapped[i][j]))])
            ELSE swapped[i]])

\* One pivot step on column j with the pivot found in row k and the cursor
\* at row r (positions from 1): normalise row k, swap it to r, eliminate.
GaussPivot(A, r, j, k) ==
    LET k_col == A[k][j]
        normalised == [A EXCEPT ![k] = Tup([col \in 1..Len(A[k]) |-> Fraction_truediv(A[k][col], k_col)])]
        swapped == IF k # r
                   THEN [normalised EXCEPT ![k] = normalised[r], ![r] = normalised[k]]
                   ELSE normalised
    IN  Tup([i \in 1..Len(A) |->
            IF i # r
            THEN Tup([col \in 1..Len(swapped[i]) |->
                     Fraction_sub(swapped[i][col], Fraction_mul(swapped[r][col], swapped[i][j]))])
            ELSE swapped[i]])

\* The loop `for j in range(n_columns-1)`, from column j (from 0) on, with
\* r pivots placed.  A[r] beyond the last row is the IndexError that returns.
RECURSIVE GaussColumns(_, _, _, _)
GaussColumns(A, r, j, n_columns) ==
    IF j > n_columns - 2 THEN A
    ELSE IF r >= Len(A) THEN A
    ELSE LET k == PivotScan(A, j + 1, r + 2, r + 1, PyAbs(A[r + 1][j + 1]))
         IN  IF Fraction_eq(A[k][j + 1], PyInt(0))
             THEN GaussColumns(A, r, j + 1, n_columns)
             ELSE Eval(LAMBDA A1 : GaussColumns(A1, r + 1, j + 1, n_columns),
                       GaussPivot(A, r + 1, j + 1, k))

\* gauss_elim(*M): the returned AugmentedMatrix (with the values of its
\* rows), or the exception raised.
gauss_elim(M) ==
    IF M = << >> THEN IndexError
    ELSE LET n_rows == Len(M)
             n_columns == Len(M[1])
         IN  IF \E row \in 1..n_rows : Len(M[row]) # n_columns THEN TypeError
             ELSE IF n_columns <= 0 THEN ValueError
             ELSE LET A == Tup([row \in 1..n_rows |-> Tup([col \in 1..n_columns |-> GaussConvert(M[row][col])])])
                  IN  [type |-> "AugmentedMatrix", n_lines |-> n_rows, n_columns |-> n_columns,
                       rows |-> Eval(LAMBDA A0 : GaussColumns(A0, 0, 0, n_columns), A)]

----------------------------------------------------------------------------
(* class Matrix: objects.  A Matrix is                                       *)
(*   [type, n_lines, n_columns, lines |-> <<ids of its row lists>>]          *)
(* and an operation yields [heap |-> the heap after it, self |-> the         *)
(* receiver after it, ret |-> the value returned or the exception raised].   *)

IsMatrix(v) == v.type \in {"Matrix", "AugmentedMatrix"}

\* The values of the rows of matrix M in heap h.
Rows(h, M) == Tup([i \in 1..Len(M.lines) |-> h[M.lines[i]]])

Outcome(h, self, ret) == [heap |-> h, self |-> self, ret |-> ret]

\* A new object of class cls whose `lines` are new lists holding L.
NewMatrix(h, cls, n_lines, n_columns, L) ==
    [heap |-> h \o L,
     ret  |-> [type |-> cls, n_lines |-> n_lines, n_columns |-> n_columns,
               lines |-> Tup([i \in 1..Len(L) |-> Len(h) + i])]]

\* Matrix.__init__
Matrix_init(h, n_lines, n_columns) ==
    IF n_lines <= 0 \/ n_columns <= 0 THEN [heap |-> h, ret |-> ValueError]
    ELSE NewMatrix(h, "Matrix", n_lines, n_columns, ZeroLines(n_lines, n_columns))

\* Matrix.from_coor(*l), l a tuple of lists.
Matrix_from_coor(h, l) ==
    IF Len(l) = 0 THEN [heap |-> h, ret |-> ValueError]
    ELSE IF \E x \in 1..Len(l) : Len(l[x]) # Len(l[1]) THEN [heap |-> h, ret |-> ValueError]
    ELSE IF Len(l[1]) <= 0 THEN [heap |-> h, ret |-> ValueError]
    ELSE NewMatrix(h, "Matrix", Len(l), Len(l[1]), l)

Matrix_square(h, n) == Matrix_init(h, n, n)

Matrix_identity(h, n) ==
    IF n <= 0 THEN [heap |-> h, ret |-> ValueError]
    ELSE NewMatrix(h, "Matrix", n, n, IdentityLines(n))

\* Matrix.reset: `self.lines` becomes a list of new rows.
Matrix_reset(h, self) ==
    LET new == NewMatrix(h, self.type, self.n_lines, self.n_columns,
                         ZeroLines(self.n_lines, self.n_columns))
    IN  Outcome(new.heap, [self EXCEPT !.lines = new.ret.lines], None)

\* The writes `self.lines[line-1][column-1] = ...` of set_identity, for the
\* pairs (line, column) numbered k..n*n-1 in loop order.
RECURSIVE SetIdentityWrites(_, _, _)
SetIdentityWrites(h, self, k) ==
    LET n == self.n_lines
    IN  IF k >= n * n THEN h
        ELSE LET line == k \div n
                 column == k % n
                 id == self.lines[PyIndex(line - 1, Len(self.lines))]
                 pos == PyIndex(column - 1, Len(h[id]))
                 v == IF line = column THEN PyInt(1) ELSE PyInt(0)
             IN  Eval(LAMBDA h1 : SetIdentityWrites(h1, self, k + 1),
                      [h EXCEPT ![id][pos] = v])

Matrix_set_identity(h, self) ==
    IF self.n_lines # self.n_columns THEN Outcome(h, self, TypeError)
    ELSE Outcome(SetIdentityWrites(h, self, 0), self, None)

\* set_value with the numbers 0 accepted: Python's index -1, the last one.
Matrix_set_value_from_zero(h, self, line, column, value) ==
    IF line < 0 \/ line > self.n_lines THEN Outcome(h, self, ValueError)
    ELSE IF column < 0 \/ column > self.n_columns THEN Outcome(h, self, ValueError)
    ELSE LET id == self.lines[PyIndex(line - 1, Len(self.lines))]
         IN  Outcome([h EXCEPT ![id][PyIndex(column - 1, Len(h[id]))] = value], self, None)

Matrix_set_value(h, self, line, column, value) ==
    IF line <= 0 \/ line > self.n_lines THEN Outcome(h, self, ValueError)
    ELSE IF column <= 0 \/ column > self.n_columns THEN Outcome(h, self, ValueError)
    ELSE Outcome([h EXCEPT ![self.lines[line]][column] = value], self, None)

Matrix_get_value(h, self, line, column) ==
    IF line <= 0 \/ line > self.n_lines THEN Outcome(h, self, ValueError)
    ELSE IF column <= 0 \/ column > self.n_columns THEN Outcome(h, self, ValueError)
    ELSE Outcome(h, self, h[self.lines[line]][column])

\* Matrix.set_line: the row is replaced by a new list, list(values).
Matrix_set_line(h, self, line_num, values) ==
    IF line_num <= 0 \/ line_num > self.n_lines THEN Outcome(h, self, ValueError)
    ELSE IF Len(values) # self.n_columns THEN Outcome(h, self, ValueError)
    ELSE Outcome(Append(h, values), [self EXCEPT !.lines[line_num] = Len(h) + 1], None)

\* Matrix.get_line: the row list itself is returned.
Matrix_get_line(h, self, line_num) ==
    IF line_num <= 0 \/ line_num > self.n_lines THEN Outcome(h, self, ValueError)
    ELSE Outcome(h, self, PyList(h[self.lines[line_num]]))

\* The writes `self.lines[index][column_num-1] = val` from index (from 1) on.
RECURSIVE SetColumnWrites(_, _, _, _, _)
SetColumnWrites(h, self, column_num, values, index) ==
    IF index > Len(values) THEN h
    ELSE Eval(LAMBDA h1 : SetColumnWrites(h1, self, column_num, values, index + 1),
              [h EXCEPT ![self.lines[index]][column_num] = values[index]])

Matrix_set_column(h, self, column_num, values) ==
    IF column_num <= 0 \/ column_num > self.n_columns THEN Outcome(h, self, ValueError)
    ELSE IF Len(values) # self.n_lines THEN Outcome(h, self, ValueError)
    ELSE Outcome(SetColumnWrites(h, self, column_num, values, 1), self, None)

\* Matrix.get_column: `self.columns[column_num-1]`, a list built by zip.
Matrix_get_column(h, self, column_num) ==
    IF column_num <= 0 \/ column_num > self.n_columns THEN Outcome(h, self, ValueError)
    ELSE Eval(LAMBDA columns :
                  IF column_num > Len(columns) THEN Outcome(h, self, IndexError)
                  ELSE Outcome(h, self, PyList(columns[column_num])),
              ZipRows(Rows(h, self)))

\* Matrix.row(*values) and Matrix.column(*values)
Matrix_row(h, values) ==
    IF Len(values) = 0 THEN [heap |-> h, ret |-> ValueError]
    ELSE Eval(LAMBDA matrix :
                  Eval(LAMBDA set : [heap |-> set.heap, ret |-> set.self],
                       Matrix_set_line(matrix.heap, matrix.ret, 1, values)),
              Matrix_init(h, 1, Len(values)))

Matrix_column(h, values) ==
    IF Len(values) = 0 THEN [heap |-> h, ret |-> ValueError]
    ELSE Eval(LAMBDA matrix :
                  Eval(LAMBDA set : [heap |-> set.heap, ret |-> set.self],
                       Matrix_set_column(matrix.heap, matrix.ret, 1, values)),
              Matrix_init(h, Len(values), 1))

\* Matrix.clone / AugmentedMatrix.clone: `m.lines = self.lines[:]` copies the
\* outer list only; the new object holds the same row lists.
Matrix_clone(h, self) ==
    Outcome(h, self, [type |-> self.type, n_lines |-> self.n_lines,
                      n_columns |-> self.n_columns, lines |-> self.lines])

Matrix_pos(h, self) == Matrix_clone(h, self)

\* Matrix.__eq__: `self.lines == other.lines`
Matrix_eq(L, O) == Len(L) = Len(O) /\ \A i \in 1..Len(L) : ListEq(L[i], O[i])

----------------------------------------------------------------------------
(* class Matrix: determinant, inverse, arithmetic and transforms *)

Matrix_get_determinant(h, self) ==
    Outcome(h, self, get_determinant(self.n_lines, self.n_columns, Rows(h, self)))

\* Matrix.transpose: m.lines[j][i] = self.lines[i][j] into a zero matrix of
\* n_columns rows; a row longer than n_columns indexes past its last row.
Matrix_transpose(h, self) ==
    LET L == Rows(h, self)
    IN  IF \/ \E i \in 1..Len(L) : Len(L[i]) > self.n_columns
           \/ (Len(L) > self.n_lines /\ \E i \in 1..Len(L) : Len(L[i]) > 0)
        THEN Outcome(h, self, IndexError)
        ELSE LET T == Tup([j \in 1..self.n_columns |-> Tup([i \in 1..self.n_lines |->
                          IF i <= Len(L) /\ j <= Len(L[i]) THEN L[i][j] ELSE PyInt(0)])])
                 new == NewMatrix(h, "Matrix", self.n_columns, self.n_lines, T)
             IN  Outcome(new.heap, self, new.ret)

Matrix_abs(h, self) ==
    LET L == Rows(h, self)
        new == NewMatrix(h, "Matrix", self.n_lines, self.n_columns,
                         Tup([i \in 1..Len(L) |-> Tup([j \in 1..Len(L[i]) |-> PyAbs(L[i][j])])]))
    IN  Outcome(new.heap, self, new.ret)

\* The scalar branch of Matrix.__mul__: `other*i` for every cell of every row.
Matrix_mul_scalar(h, self, other) ==
    LET L == Rows(h, self)
        new == NewMatrix(h, "Matrix", self.n_lines, self.n_columns,
                         Tup([i \in 1..Len(L) |-> Tup([j \in 1..Len(L[i]) |-> PyMul(other, L[i][j])])]))
    IN  Outcome(new.heap, self, new.ret)

\* The Matrix branch of Matrix.__mul__, on the values of the rows:
\* sum(a*b for a, b in zip(X_row, Y_col)) for Y_col in zip(*other.lines).
MulLines(L, O) ==
    LET cols == ZipRows(O)
    IN  Tup([i \in 1..Len(L) |-> Tup([c \in 1..Len(cols) |->
            PySum(Tup([k \in 1..ZipLen(L[i], cols[c]) |-> PyMul(L[i][k], cols[c][k])]))])])

Matrix_mul(h, self, other) ==
    IF self.n_columns # other.n_lines THEN Outcome(h, self, TypeError)
    ELSE LET new == NewMatrix(h, "Matrix", self.n_lines, other.n_columns,
                              MulLines(Rows(h, self), Rows(h, other)))
         IN  Outcome(new.heap, self, new.ret)

Matrix_neg(h, self) == Matrix_mul_scalar(h, self, PyInt(-1))

Matrix_add(h, self, other) ==
    IF self.n_lines # other.n_lines \/ self.n_columns # other.n_columns
    THEN Outcome(h, self, TypeError)
    ELSE LET L == Rows(h, self)
             O == Rows(h, other)
         IN  IF \E i \in 1..self.n_lines :
                   i > Len(L) \/ i > Len(O) \/ Len(L[i]) < self.n_columns \/ Len(O[i]) < self.n_columns
             THEN Outcome(h, self, IndexError)
             ELSE LET new == NewMatrix(h, "Matrix", self.n_lines, self.n_columns,
                                 Tup([i \in 1..self.n_lines |-> Tup([j \in 1..self.n_columns |->
                                     PyAdd(L[i][j], O[i][j])])]))
                  IN  Outcome(new.heap, self, new.ret)

\* Matrix.__sub__: self.__add__(other.__mul__(-1))
Matrix_sub(h, self, other) ==
    Eval(LAMBDA negated :
             Eval(LAMBDA sum : Outcome(sum.heap, self, sum.ret),
                  Matrix_add(negated.heap, self, negated.ret)),
         Matrix_mul_scalar(h, other, PyInt(-1)))

\* `line.append(vector[index])` for the rows of newMatrix.lines from index
\* (from 1) on: the lists appended to are the rows of self.
RECURSIVE AppendVector(_, _, _, _)
AppendVector(h, lines, vector, index) ==
    IF index > Len(lines) THEN h
    ELSE Eval(LAMBDA h1 : AppendVector(h1, lines, vector, index + 1),
              [h EXCEPT ![lines[index]] = Append(@, vector[index])])

\* The rest of a pass of get_inverse once gauss_elim has returned m:
\* inverse.set_column(vectorindex+1, m.columns[-1]), then the next pass.
RECURSIVE InversePasses(_, _, _, _)
InverseColumn(h1, self, inverse, vectorindex, m) ==
    IF IsException(m) THEN Outcome(h1, self, m)
    ELSE LET columns == ZipRows(m.rows)
         IN  Eval(LAMBDA set :
                      IF IsException(set.ret) THEN Outcome(set.heap, self, set.ret)
                      ELSE InversePasses(set.heap, self, set.self, vectorindex + 1),
                  Matrix_set_column(h1, inverse, vectorindex, columns[Len(columns)]))

\* The loop of get_inverse from pass vectorindex (from 1) on; inverse is
\* the Matrix being filled.
InversePasses(h, self, inverse, vectorindex) ==
    IF vectorindex > self.n_lines
    THEN Outcome(h, self, inverse)
    ELSE LET vector == IdentityLines(self.n_lines)[vectorindex]
         IN  Eval(LAMBDA h1 :
                      Eval(LAMBDA m : InverseColumn(h1, self, inverse, vectorindex, m),
                           gauss_elim(Rows(h1, self))),
                  AppendVector(h, self.lines, vector, 1))

\* Matrix.get_inverse
Matrix_get_inverse(h, self) ==
    IF ~is_inversible(self.n_lines, self.n_columns, Rows(h, self))
    THEN Outcome(h, self, TypeError)
    ELSE Eval(LAMBDA inverse : InversePasses(inverse.heap, self, inverse.ret, 1),
              Matrix_square(h, self.n_lines))

\* `power = self.clone()` and then `power *= self`, count times.
RECURSIVE PowerLoop(_, _, _, _)
PowerLoop(h, self, power, count) ==
    IF count = 0 THEN Outcome(h, self, power)
    ELSE Eval(LAMBDA product :
                  IF IsException(product.ret) THEN Outcome(product.heap, self, product.ret)
                  ELSE PowerLoop(product.heap, self, product.ret, count - 1),
              Matrix_mul(h, power, self))

\* Matrix.__pow__ with an int exponent.
Matrix_pow(h, self, other) ==
    IF other <= -1
    THEN Eval(LAMBDA inv :
                  IF IsException(inv.ret) \/ other = -1 THEN inv
                  ELSE Eval(LAMBDA p : Outcome(p.heap, self, p.ret),
                            PowerLoop(inv.heap, inv.ret, Matrix_clone(inv.heap, inv.ret).ret,
                                      Abs(other) - 1)),
              Matrix_get_inverse(h, self))
    ELSE IF other = 0
    THEN Eval(LAMBDA id : Outcome(id.heap, self, id.ret), Matrix_identity(h, self.n_lines))
    ELSE PowerLoop(h, self, Matrix_clone(h, self).ret, other - 1)

----------------------------------------------------------------------------
(* The Matrix machine: a program with two matrix variables, m and c.  m is   *)
(* constructed first; every Matrix an operation returns is bound to c.       *)

\* Matrix dimensions of the constructors' arguments range over 0..MaxDim.
MaxDim == 2

\* Integer cell values range over -MaxVal..MaxVal.
MaxVal == 1

\* Exponents of Matrix.__pow__ range over -MaxPow..MaxPow.
MaxPow == 2

\* Number of operations in a run.
MaxSteps == 3

Names == {"m", "c"}

PyVals == {PyInt(v) : v \in (-MaxVal)..MaxVal}

\* The lists of ints of length 0..MaxDim.
IntLists == UNION {{Tup(f) : f \in [1..k -> PyVals]} : k \in 0..MaxDim}

\* The argument tuples of from_coor: up to MaxDim lists, of any lengths.
RowLists == UNION {{Tup(f) : f \in [1..n -> IntLists]} : n \in 0..MaxDim}

Dims == 0..MaxDim

\* Line and column numbers handed to the accessors, in and out of range.
Indexes == 0..(MaxDim + 1)

\* The ids of a list in order of first occurrence.
Dedup(ids) ==
    LET first == {k \in 1..Len(ids) : \A j \in 1..(k - 1) : ids[j] # ids[k]}
        rank(k) == Cardinality({j \in first : j <= k})
    IN  Tup([r \in 1..Cardinality(first) |-> ids[CHOOSE k \in first : rank(k) = r]])

LinesOf(M) == IF IsMatrix(M) THEN M.lines ELSE << >>

\* Garbage collection: the lists no variable reaches are dropped and the
\* others numbered in the order m, c reach them.
Renumber(h, ms, order) ==
    LET new(id) == CHOOSE k \in 1..Len(order) : order[k] = id
        move(M) == IF IsMatrix(M)
                   THEN [M EXCEPT !.lines = Tup([i \in 1..Len(M.lines) |-> new(M.lines[i])])]
                   ELSE M
    IN  [heap |-> Tup([k \in 1..Len(order) |-> h[order[k]]]),
         mats |-> [m |-> move(ms.m), c |-> move(ms.c)]]

Collect(h, ms) ==
    Eval(LAMBDA order : Renumber(h, ms, order), Dedup(LinesOf(ms.m) \o LinesOf(ms.c)))

\* The arguments of an accessor call as `last` records them; the other
\* operations record none.
Args(line, column, values) == [line |-> line, column |-> column, values |-> values]

NoArgs == Args(0, 0, << >>)

OutcomeOf(ret) == IF IsException(ret) THEN ret.type ELSE "ok"

ValueOf(ret) == IF ret.type \in {"int", "Fraction", "list"} THEN ret ELSE None

Init ==
    /\ heap = << >>
    /\ mats = [m |-> None, c |-> None]
    /\ last = [op |-> "init", recv |-> "none", outcome |-> "ok", value |-> None, args |-> NoArgs]
    /\ steps = 0
    /\ fa = Fraction(0, 1)
    /\ fb = PyInt(0)
    /\ fres = None
    /\ fop = "init"
    /\ gauss = None
    /\ pass = None

\* m = <constructor call>: out is [heap, ret].
Construct(op, out) ==
    /\ steps < MaxSteps
    /\ mats.m = None
    /\ \E o \in {out} :
          /\ \E n \in {Collect(o.heap, IF IsMatrix(o.ret) THEN [mats EXCEPT !.m = o.ret] ELSE mats)} :
                /\ heap' = n.heap
                /\ mats' = n.mats
          /\ last' = [op |-> op, recv |-> "m", outcome |-> OutcomeOf(o.ret), value |-> None, args |-> NoArgs]
    /\ steps' = steps + 1
    /\ UNCHANGED <<fractionVars, gaussVars, inverseVars>>

\* A method call on the variable recv with the arguments args; a returned
\* Matrix is bound to c.
CallWith(op, recv, args, out) ==
    /\ steps < MaxSteps
    /\ \E o \in {out} :
          /\ \E n \in {Collect(o.heap, IF IsMatrix(o.ret)
                                       THEN [mats EXCEPT ![recv] = o.self, !.c = o.ret]
                                       ELSE [mats EXCEPT ![recv] = o.self])} :
                /\ heap' = n.heap
                /\ mats' = n.mats
          /\ last' = [op |-> op, recv |-> recv, outcome |-> OutcomeOf(o.ret),
                      value |-> ValueOf(o.ret), args |-> args]
    /\ steps' = steps + 1
    /\ UNCHANGED <<fractionVars, gaussVars, inverseVars>>

Call(op, recv, out) == CallWith(op, recv, NoArgs, out)

Bound == {v \in Names : IsMatrix(mats[v])}

NewMatrixCall == \E n_lines \in Dims, n_columns \in Dims :
    Construct("Matrix", Matrix_init(heap, n_lines, n_columns))

FromCoor == \E l \in RowLists : Construct("from_coor", Matrix_from_coor(heap, l))

Identity == \E n \in Dims : Construct("identity", Matrix_identity(heap, n))

Square == \E n \in Dims : Construct("square", Matrix_square(heap, n))

Row == \E values \in IntLists : Construct("row", Matrix_row(heap, values))

Column == \E values \in IntLists : Construct("column", Matrix_column(heap, values))

SetValue == \E v \in Bound, line \in Indexes, column \in Indexes, value \in PyVals :
    Call("set_value", v, Matrix_set_value(heap, mats[v], line, column, value))

SetLine == \E v \in Bound, line_num \in Indexes, values \in IntLists :
    Call("set_line", v, Matrix_set_line(heap, mats[v], line_num, values))

SetColumn == \E v \in Bound, column_num \in Indexes, values \in IntLists :
    Call("set_column", v, Matrix_set_column(heap, mats[v], column_num, values))

Reset == \E v \in Bound : Call("reset", v, Matrix_reset(heap, mats[v]))

SetIdentity == \E v \in Bound : Call("set_identity", v, Matrix_set_identity(heap, mats[v]))

Clone == \E v \in Bound : Call("clone", v, Matrix_clone(heap, mats[v]))

Pos == \E v \in Bound : Call("pos", v, Matrix_pos(heap, mats[v]))

Neg == \E v \in Bound : Call("neg", v, Matrix_neg(heap, mats[v]))

AbsCall == \E v \in Bound : Call("abs", v, Matrix_abs(heap, mats[v]))

Transpose == \E v \in Bound : Call("transpose", v, Matrix_transpose(heap, mats[v]))

GetDeterminant == \E v \in Bound :
    Call("get_determinant", v, Matrix_get_determinant(heap, mats[v]))

GetInverse == \E v \in Bound : Call("get_inverse", v, Matrix_get_inverse(heap, mats[v]))

Pow == \E v \in Bound, k \in (-MaxPow)..MaxPow :
    Call("pow", v, Matrix_pow(heap, mats[v], k))

MulScalar == \E v \in Bound, k \in PyVals :
    Call("mul", v, Matrix_mul_scalar(heap, mats[v], k))

Mul == \E v \in Bound, o \in Bound : Call("mul", v, Matrix_mul(heap, mats[v], mats[o]))

Add == \E v \in Bound, o \in Bound : Call("add", v, Matrix_add(heap, mats[v], mats[o]))

Sub == \E v \in Bound, o \in Bound : Call("sub", v, Matrix_sub(heap, mats[v], mats[o]))

Next ==
    \/ NewMatrixCall \/ FromCoor \/ Identity \/ Square \/ Row \/ Column
    \/ SetValue \/ SetLine \/ SetColumn \/ Reset \/ SetIdentity
    \/ Clone \/ Pos \/ Neg \/ AbsCall \/ Transpose
    \/ GetDeterminant \/ GetInverse \/ Pow
    \/ MulScalar \/ Mul \/ Add \/ Sub

Spec == Init /\ [][Next]_vars

----------------------------------------------------------------------------
(* Properties of the Matrix machine                                         *)

\* The cells of the variable v as the list of its row lists.
Cells(h, ms, v) == Rows(h, ms[v])

\* The step is a call of one of ops on the variable v, a Matrix before it.
Called(ops, v) ==
    /\ steps' = steps + 1
    /\ IsMatrix(mats[v])
    /\ last'.op \in ops
    /\ last'.recv = v

\* The n_lines x n_columns cells the shape of M declares.
Block(h, M) ==
    Tup([i \in 1..M.n_lines |-> Tup([j \in 1..M.n_columns |-> Rows(h, M)[i][j]])])

\* M holds n_lines rows of n_columns cells each.
WellShaped(h, M) ==
    /\ Len(M.lines) = M.n_lines
    /\ \A i \in 1..Len(M.lines) : Len(h[M.lines[i]]) = M.n_columns

\* C1: every matrix has exactly n_lines rows and every row has exactly
\* n_columns entries, in every state the constructors, the setters, the
\* operators and get_inverse reach.
C1_ShapeInvariant == \A v \in Bound : WellShaped(heap, mats[v])

ArithOps == {"add", "sub", "mul", "pow", "neg", "abs", "transpose",
             "get_determinant", "get_inverse"}

Setters == {"set_value", "set_line", "set_column", "reset", "set_identity"}

\* C2: an arithmetic or transform operation called on m (add, sub, mul, pow,
\* neg, abs, transpose, get_determinant, get_inverse) leaves the full contents
\* of the rows of m as they were before the call.
C2_ReceiverUntouched ==
    [][Called(ArithOps, "m") => Cells(heap', mats', "m") = Cells(heap, mats, "m")]_vars

\* C3: m and the matrix c derived from it share no cell storage: a setter
\* called on c leaves every cell of m unchanged, and a setter called on m
\* leaves every cell of c unchanged.
C3_NoSharedCells ==
    [][/\ (Called(Setters, "c") /\ IsMatrix(mats.m))
            => Cells(heap', mats', "m") = Cells(heap, mats, "m")
       /\ (Called(Setters, "m") /\ IsMatrix(mats.c))
            => Cells(heap', mats', "c") = Cells(heap, mats, "c")]_vars

\* M is a square matrix of ints with M * M equal to the identity.
SelfInverse(h, M) ==
    /\ M.n_lines = M.n_columns /\ M.n_lines > 0
    /\ WellShaped(h, M)
    /\ \A i \in 1..M.n_lines : \A j \in 1..M.n_columns : IsInt(Rows(h, M)[i][j])
    /\ Matrix_eq(MulLines(Rows(h, M), Rows(h, M)), IdentityLines(M.n_lines))

\* C5: for a square integer matrix m with m * m = identity, m.get_inverse()
\* returns a matrix that compares equal (Matrix ==) to m itself.
C5_SelfInverse ==
    [][(Called({"get_inverse"}, "m") /\ SelfInverse(heap, mats.m))
          => /\ last'.outcome = "ok"
             /\ Matrix_eq(Cells(heap', mats', "c"), Cells(heap', mats', "m"))]_vars

\* The determinant of the n_lines x n_columns cells of a square matrix M is 0.
Singular(h, M) == ~PyBool(Determinant(M.n_lines, Block(h, M)))

\* C6: get_inverse fails with TypeError exactly when the matrix is not square
\* or its determinant is zero and succeeds otherwise, on the first call and on
\* every later call on the same matrix.
C6_InverseFailsIffSingular ==
    [][\A v \in Names :
          Called({"get_inverse"}, v) =>
              IF mats[v].n_lines # mats[v].n_columns \/ Singular(heap, mats[v])
              THEN last'.outcome = "TypeError"
              ELSE last'.outcome = "ok"]_vars

----------------------------------------------------------------------------
(* The accessor machine: m is a matrix of ints built by from_coor, with or   *)
(* without a call c = m.get_inverse() after it, and one accessor is called   *)
(* on m or on c, its arguments recorded in `last`.                           *)

\* Number of accessor calls in a run.
AccessSteps == 1

\* Line and column numbers of the recorded calls: negative, 0, in range and
\* past the end.
AccessIndexes == (-1)..(MaxDim + 1)

AccessInit ==
    /\ \E n \in 1..MaxDim, k \in 1..MaxDim : \E L \in [1..n -> [1..k -> PyVals]] :
          \E o \in {Matrix_from_coor(<< >>, Tup([i \in 1..n |-> Tup(L[i])]))} :
             \E g \in {Outcome(o.heap, o.ret, None), Matrix_get_inverse(o.heap, o.ret)} :
                /\ \E s \in {Collect(g.heap, [m |-> g.self,
                                              c |-> IF IsMatrix(g.ret) THEN g.ret ELSE None])} :
                      /\ heap = s.heap
                      /\ mats = s.mats
                /\ last = [op |-> IF IsMatrix(g.ret) THEN "get_inverse" ELSE "from_coor",
                           recv |-> "m", outcome |-> "ok", value |-> None, args |-> NoArgs]
    /\ steps = 0
    /\ fa = Fraction(0, 1)
    /\ fb = PyInt(0)
    /\ fres = None
    /\ fop = "init"
    /\ gauss = None
    /\ pass = None

AccessSetValue == \E v \in Bound, line \in AccessIndexes, column \in AccessIndexes, value \in PyVals :
    CallWith("set_value", v, Args(line, column, <<value>>),
             Matrix_set_value(heap, mats[v], line, column, value))

AccessGetValue == \E v \in Bound, line \in AccessIndexes, column \in AccessIndexes :
    CallWith("get_value", v, Args(line, column, << >>),
             Matrix_get_value(heap, mats[v], line, column))

AccessSetLine == \E v \in Bound, line_num \in AccessIndexes, values \in IntLists :
    CallWith("set_line", v, Args(line_num, 0, values),
             Matrix_set_line(heap, mats[v], line_num, values))

AccessGetLine == \E v \in Bound, line_num \in AccessIndexes :
    CallWith("get_line", v, Args(line_num, 0, << >>),
             Matrix_get_line(heap, mats[v], line_num))

AccessSetColumn == \E v \in Bound, column_num \in AccessIndexes, values \in IntLists :
    CallWith("set_column", v, Args(0, column_num, values),
             Matrix_set_column(heap, mats[v], column_num, values))

AccessGetColumn == \E v \in Bound, column_num \in AccessIndexes :
    CallWith("get_column", v, Args(0, column_num, << >>),
             Matrix_get_column(heap, mats[v], column_num))

AccessNext ==
    /\ steps < AccessSteps
    /\ \/ AccessSetValue \/ AccessGetValue
       \/ AccessSetLine \/ AccessGetLine
       \/ AccessSetColumn \/ AccessGetColumn

SpecAccess == AccessInit /\ [][AccessNext]_vars

Accessors == {"set_value", "get_value", "set_line", "get_line", "set_column", "get_column"}

\* The arguments a of a call of op on M that the accessors must refuse: a line
\* number outside 1..n_lines, a column number outside 1..n_columns, or a row
\* or column of the wrong length.
Refused(op, M, a) ==
    \/ op \in {"set_value", "get_value", "set_line", "get_line"}
          /\ a.line \notin 1..M.n_lines
    \/ op \in {"set_value", "get_value", "set_column", "get_column"}
          /\ a.column \notin 1..M.n_columns
    \/ op = "set_line" /\ Len(a.values) # M.n_columns
    \/ op = "set_column" /\ Len(a.values) # M.n_lines

\* C16: an accessor (get_value, set_value, get_line, set_line, get_column,
\* set_column) called with a line number outside 1..n_lines or a column number
\* outside 1..n_columns, 0 and negative numbers included, or set_line /
\* set_column called with a sequence of the wrong length, fails and leaves
\* every cell of every matrix as it was; numbers count from 1: with arguments
\* in range get_value(i, j) returns the cell in row i, column j, get_line(i)
\* row i, and set_value(i, j, x) stores x there.
C16_AccessorsBoundsChecked ==
    [][\A v \in Names : Called(Accessors, v) =>
          LET op == last'.op
              a  == last'.args
          IN  /\ Refused(op, mats[v], a) =>
                    /\ last'.outcome # "ok"
                    /\ \A w \in Bound : Cells(heap', mats', w) = Cells(heap, mats, w)
              /\ ~Refused(op, mats[v], a) =>
                    /\ last'.outcome = "ok"
                    /\ op = "get_value" => last'.value = Cells(heap, mats, v)[a.line][a.column]
                    /\ op = "get_line" => last'.value = PyList(Cells(heap, mats, v)[a.line])
                    /\ op = "set_value" => Cells(heap', mats', v)[a.line][a.column] = a.values[1]]_vars

\* set_column was called with a negative column number and a column of the
\* right length on a matrix m after c = m.get_inverse(), and failed.
C16_Witness ==
    /\ last.op = "set_column"
    /\ last.recv = "m"
    /\ last.outcome = "ValueError"
    /\ last.args.column < 0
    /\ IsMatrix(mats.c)
    /\ Len(last.args.values) = mats.m.n_lines

----------------------------------------------------------------------------
(* The inverse machine: m is a square matrix of ints built by from_coor and  *)
(* get_inverse is called on it and on the matrices it returns.               *)

\* Dimension of the square matrices get_inverse is called on.
InvDim == 3

\* The argument tuples of from_coor that give an n x n matrix of ints.
SquareLists(n) == {Tup(f) : f \in [1..n -> {Tup(g) : g \in [1..n -> PyVals]}]}

InverseInit ==
    /\ \E n \in 1..InvDim : \E l \in SquareLists(n) :
          \E o \in {Matrix_from_coor(<< >>, l)} :
              /\ heap = o.heap
              /\ mats = [m |-> o.ret, c |-> None]
    /\ last = [op |-> "from_coor", recv |-> "m", outcome |-> "ok", value |-> None, args |-> NoArgs]
    /\ steps = 0
    /\ fa = Fraction(0, 1)
    /\ fb = PyInt(0)
    /\ fres = None
    /\ fop = "init"
    /\ gauss = None
    /\ pass = None

\* Number of get_inverse calls in a run of the inverse machine.
InvSteps == 1

InverseNext == steps < InvSteps /\ GetInverse

SpecInverse == InverseInit /\ [][InverseNext]_vars

\* The determinant of an n x n list of rows of ints by the Leibniz formula.
RECURSIVE Leibniz(_, _, _)
Leibniz(L, row, free) ==
    IF free = {} THEN 1
    ELSE LET sign(col) == IF Cardinality({k \in free : k < col}) % 2 = 0 THEN 1 ELSE -1
             term(col) == sign(col) * L[row][col].value * Leibniz(L, row + 1, free \ {col})
             sum[cols \in SUBSET free] ==
                 IF cols = {} THEN 0
                 ELSE LET col == CHOOSE k \in cols : TRUE
                      IN  term(col) + sum[cols \ {col}]
         IN  sum[free]

\* m is the n x n integer matrix A, non-singular, with an untouched A block.
NonSingular(h, M) ==
    /\ M.n_lines = M.n_columns
    /\ \A i \in 1..M.n_lines : \A j \in 1..M.n_columns : IsInt(Rows(h, M)[i][j])
    /\ Leibniz(Block(h, M), 1, 1..M.n_lines) # 0

\* C4: for a square non-singular integer matrix A, A * A.get_inverse() has the
\* shape of A and equals the identity matrix of A's dimension cell by cell,
\* with exact zeros off the diagonal.
C4_InverseRoundTrip ==
    (last.op = "get_inverse" /\ last.recv = "m" /\ last.outcome = "ok"
        /\ NonSingular(heap, mats.m)) =>
        \E product \in {Matrix_mul(heap, mats.m, mats.c)} :
            /\ IsMatrix(product.ret)
            /\ product.ret.n_lines = mats.m.n_lines
            /\ product.ret.n_columns = mats.m.n_columns
            /\ WellShaped(product.heap, product.ret)
            /\ Matrix_eq(Rows(product.heap, product.ret), IdentityLines(mats.m.n_lines))
            /\ \A i \in 1..mats.m.n_lines : \A j \in 1..mats.m.n_lines :
                  LET cell == Coerce(Rows(product.heap, product.ret)[i][j])
                  IN  /\ cell.numerator = (IF i = j THEN 1 ELSE 0)
                      /\ cell.denominator = 1

\* get_inverse returned the inverse of a 3 x 3 matrix whose first pivot is 0
\* (rows are swapped) and whose inverse has a cell that is not an integer.
C4_Witness ==
    /\ last.op = "get_inverse" /\ last.recv = "m" /\ last.outcome = "ok"
    /\ NonSingular(heap, mats.m)
    /\ mats.m.n_lines = 3
    /\ WellShaped(heap, mats.c)
    /\ Rows(heap, mats.m)[1][1].value = 0
    /\ \E i \in 1..3 : \E j \in 1..3 : Coerce(Rows(heap, mats.c)[i][j]).denominator > 1

\* C20: for a square non-singular integer matrix A, after B = A.get_inverse()
\* the product B * A is an n x n matrix equal to the identity of A's
\* dimension, with exact zeros off the diagonal, and a second call
\* A.get_inverse() returns a matrix equal to B.
C20_LeftInverse ==
    (last.op = "get_inverse" /\ last.recv = "m" /\ last.outcome = "ok"
        /\ NonSingular(heap, mats.m)) =>
        /\ \E product \in {Matrix_mul(heap, mats.c, mats.m)} :
              /\ IsMatrix(product.ret)
              /\ product.ret.n_lines = mats.m.n_lines
              /\ product.ret.n_columns = mats.m.n_columns
              /\ WellShaped(product.heap, product.ret)
              /\ Matrix_eq(Rows(product.heap, product.ret), IdentityLines(mats.m.n_lines))
              /\ \A i \in 1..mats.m.n_lines : \A j \in 1..mats.m.n_lines :
                    LET cell == Coerce(Rows(product.heap, product.ret)[i][j])
                    IN  /\ cell.numerator = (IF i = j THEN 1 ELSE 0)
                        /\ cell.denominator = 1
        /\ \E again \in {Matrix_get_inverse(heap, mats.m)} :
              /\ IsMatrix(again.ret)
              /\ Matrix_eq(Rows(again.heap, again.ret), Rows(heap, mats.c))

----------------------------------------------------------------------------
(* The pass machine: one call m.get_inverse(), pass by pass.  The frame     *)
(* `pass` holds the locals inverse and vectorindex, the values of the rows    *)
(* handed to gauss_elim in the latest pass (system) and what it returned (m).*)

\* Lines 111-114: the test, `vectors` and `inverse`.
InverseCallStep(h, self, f) ==
    IF ~is_inversible(self.n_lines, self.n_columns, Rows(h, self))
    THEN [heap |-> h, pass |-> [f EXCEPT !.pc = "done", !.ret = TypeError]]
    ELSE Eval(LAMBDA inverse :
                  [heap |-> inverse.heap,
                   pass |-> [f EXCEPT !.pc = "loop", !.inverse = inverse.ret]],
              Matrix_square(h, self.n_lines))

\* Lines 116-121: one pass of `for vectorindex, vector in enumerate(vectors)`.
InversePassStep(h, self, f) ==
    LET vector == IdentityLines(self.n_lines)[f.vectorindex + 1]
    IN  Eval(LAMBDA h1 :
            Eval(LAMBDA system :
                Eval(LAMBDA m :
                    IF IsException(m)
                    THEN [heap |-> h1,
                          pass |-> [f EXCEPT !.pc = "done", !.system = system, !.m = m, !.ret = m]]
                    ELSE Eval(LAMBDA set :
                             [heap |-> set.heap,
                              pass |-> [f EXCEPT !.pc = IF IsException(set.ret) THEN "done" ELSE "loop",
                                                 !.system = system, !.m = m,
                                                 !.inverse = set.self,
                                                 !.vectorindex = @ + 1,
                                                 !.ret = IF IsException(set.ret) THEN set.ret ELSE @]],
                             Matrix_set_column(h1, f.inverse, f.vectorindex + 1,
                                               ZipRows(m.rows)[Len(ZipRows(m.rows))])),
                    gauss_elim(system)),
                Rows(h1, self)),
            AppendVector(h, self.lines, vector, 1))

PassInit ==
    /\ \E n \in 1..InvDim : \E L \in [1..n -> [1..n -> PyVals]] :
          \E o \in {Matrix_from_coor(<< >>, Tup([i \in 1..n |-> Tup(L[i])]))} :
              /\ heap = o.heap
              /\ mats = [m |-> o.ret, c |-> None]
    /\ last = [op |-> "from_coor", recv |-> "m", outcome |-> "ok", value |-> None, args |-> NoArgs]
    /\ steps = 0
    /\ fa = Fraction(0, 1)
    /\ fb = PyInt(0)
    /\ fres = None
    /\ fop = "init"
    /\ gauss = None
    /\ pass = [pc |-> "call", inverse |-> None, vectorindex |-> 0, system |-> << >>,
              m |-> None, ret |-> None]

InverseCall ==
    /\ pass.pc = "call"
    /\ \E o \in {InverseCallStep(heap, mats.m, pass)} :
          /\ heap' = o.heap
          /\ pass' = o.pass
          /\ last' = IF o.pass.pc = "done"
                     THEN [op |-> "get_inverse", recv |-> "m", outcome |-> OutcomeOf(o.pass.ret),
                           value |-> None, args |-> NoArgs]
                     ELSE last
    /\ UNCHANGED <<mats, steps, fractionVars, gaussVars>>

InversePass ==
    /\ pass.pc = "loop"
    /\ pass.vectorindex < mats.m.n_lines
    /\ \E o \in {InversePassStep(heap, mats.m, pass)} :
          /\ heap' = o.heap
          /\ pass' = o.pass
          /\ last' = IF o.pass.pc = "done"
                     THEN [op |-> "get_inverse", recv |-> "m", outcome |-> OutcomeOf(o.pass.ret),
                           value |-> None, args |-> NoArgs]
                     ELSE last
    /\ UNCHANGED <<mats, steps, fractionVars, gaussVars>>

\* Line 122: `return inverse`; the caller binds it to c.
InverseReturn ==
    /\ pass.pc = "loop"
    /\ pass.vectorindex >= mats.m.n_lines
    /\ pass' = [pass EXCEPT !.pc = "done", !.ret = pass.inverse]
    /\ mats' = [mats EXCEPT !.c = pass.inverse]
    /\ last' = [op |-> "get_inverse", recv |-> "m", outcome |-> "ok", value |-> None,
                args |-> NoArgs]
    /\ steps' = steps + 1
    /\ UNCHANGED <<heap, fractionVars, gaussVars>>

PassNext == InverseCall \/ InversePass \/ InverseReturn

SpecPasses == PassInit /\ [][PassNext]_vars

\* C17: in m.get_inverse() on an n x n matrix A, pass i hands gauss_elim
\* exactly n rows of n + 1 entries, the rows of A each followed by the one
\* entry of the i-th identity vector and by nothing of the earlier passes, and
\* the last column of what gauss_elim returns becomes column i of the inverse.
C17_PassSystemIsAugmentedOnce ==
    (pass.system # << >> /\ ~IsException(pass.m)) =>
        LET n == mats.m.n_lines
            i == pass.vectorindex
            A == Block(heap, mats.m)
        IN  /\ Len(pass.system) = n
            /\ \A row \in 1..n :
                  pass.system[row] = Append(A[row], IdentityLines(n)[i][row])
            /\ \A row \in 1..n :
                  Rows(heap, pass.inverse)[row][i] = pass.m.rows[row][Len(pass.m.rows[row])]

----------------------------------------------------------------------------
(* The determinant machine: m is a matrix of ints built by from_coor, square *)
(* or not, and get_determinant is called on it.                              *)

\* Number of rows and of columns of the matrices get_determinant is called on.
DetDim == 3

\* The matrix of the spec's example.
DetExample == << <<PyInt(1), PyInt(2)>>, <<PyInt(3), PyInt(4)>> >>

DeterminantInit ==
    /\ \/ \E n \in 1..DetDim, k \in 1..DetDim : \E L \in [1..n -> [1..k -> PyVals]] :
             \E o \in {Matrix_from_coor(<< >>, Tup([i \in 1..n |-> Tup(L[i])]))} :
                 /\ heap = o.heap
                 /\ mats = [m |-> o.ret, c |-> None]
       \/ \E o \in {Matrix_from_coor(<< >>, DetExample)} :
             /\ heap = o.heap
             /\ mats = [m |-> o.ret, c |-> None]
    /\ last = [op |-> "from_coor", recv |-> "m", outcome |-> "ok", value |-> None, args |-> NoArgs]
    /\ steps = 0
    /\ fa = Fraction(0, 1)
    /\ fb = PyInt(0)
    /\ fres = None
    /\ fop = "init"
    /\ gauss = None
    /\ pass = None

DeterminantNext == GetDeterminant

SpecDeterminant == DeterminantInit /\ [][DeterminantNext]_vars

\* C15: get_determinant on a square matrix of ints of dimension up to 3 returns
\* the permutation-sum determinant of its cells: the cell itself for 1 x 1,
\* a*d - b*c for [[a,b],[c,d]], -2 for [[1,2],[3,4]]; on a matrix that is
\* not square it fails with TypeError.
C15_Determinant ==
    (last.op = "get_determinant" /\ last.recv = "m") =>
        LET L == Cells(heap, mats, "m")
            n == mats.m.n_lines
        IN  IF n # mats.m.n_columns
            THEN last.outcome = "TypeError"
            ELSE /\ last.outcome = "ok"
                 /\ last.value = PyInt(Leibniz(L, 1, 1..n))
                 /\ n = 1 => last.value = L[1][1]
                 /\ n = 2 => last.value.value =
                        L[1][1].value * L[2][2].value - L[1][2].value * L[2][1].value
                 /\ L = DetExample => last.value.value = -2

\* get_determinant has returned a negative determinant for a 3 x 3 matrix
\* whose first row starts with 0.
C15_Witness ==
    /\ last.op = "get_determinant" /\ last.recv = "m" /\ last.outcome = "ok"
    /\ mats.m.n_lines = 3 /\ mats.m.n_columns = 3
    /\ Cells(heap, mats, "m")[1][1].value = 0
    /\ last.value.value < -1

----------------------------------------------------------------------------
(* The gauss_elim machine: one call of gauss_elim, statement by statement.  *)
(* The caller's rows are the lists heap[gauss.M[i]]; the frame `gauss` holds *)
(* the locals A (the ids of the working rows), r, j and n_columns, the       *)
(* columns in which a pivot was placed, and the value returned or raised.    *)

\* The caller hands gauss_elim up to GaussRows rows ...
GaussRows == 3

\* ... of up to GaussCols entries each.
GaussCols == 3

\* The rows handed to gauss_elim: lists of any lengths, equal or not.
GaussRowValues == UNION {{Tup(f) : f \in [1..k -> PyVals]} : k \in 0..GaussCols}

\* The system x + 2y = 5, 3x + 4y = 6.
GaussExample == << <<PyInt(1), PyInt(2), PyInt(5)>>, <<PyInt(3), PyInt(4), PyInt(6)>> >>

\* The values of the lists with the given ids.
Lists(h, ids) == Tup([i \in 1..Len(ids) |-> h[ids[i]]])

\* A variant of the copy that keeps the caller's lists as the working rows.
GaussCopy_shared(h, M) == [heap |-> h, A |-> M]

\* A = [elem[:] for elem in M]: a new list for every row.
GaussCopy(h, M) ==
    [heap |-> h \o Lists(h, M), A |-> Tup([i \in 1..Len(M) |-> Len(h) + i])]

\* The loop `for row in range(n_rows)` up to the row before `stop`: the
\* entries of the rows are converted in place.
GaussConvertRows(h, A, stop) ==
    Tup([id \in 1..Len(h) |->
        IF \E row \in 1..(stop - 1) : A[row] = id
        THEN Tup([col \in 1..Len(h[id]) |-> GaussConvert(h[id][col])])
        ELSE h[id]])

\* The lists still referenced once the call has raised: the caller's.
GaussUnwind(h, M) == SubSeq(h, 1, Len(M))

\* Lines 371-390: the copy, the length check and the conversion.
GaussCallStep(h, g) ==
    IF g.M = << >>
    THEN [heap |-> h, gauss |-> [g EXCEPT !.pc = "done", !.ret = IndexError]]
    ELSE Eval(LAMBDA copy :
             LET A == copy.A
                 n_rows == Len(A)
                 n_columns == Len(copy.heap[A[1]])
                 bad == {row \in 1..n_rows : Len(copy.heap[A[row]]) # n_columns}
             IN  IF bad # {}
                 THEN LET row == CHOOSE x \in bad : \A y \in bad : x <= y
                      IN  [heap |-> GaussUnwind(GaussConvertRows(copy.heap, A, row), g.M),
                           gauss |-> [g EXCEPT !.pc = "done", !.ret = TypeError]]
                 ELSE [heap |-> GaussConvertRows(copy.heap, A, n_rows + 1),
                       gauss |-> [g EXCEPT !.pc = "loop", !.A = A, !.n_columns = n_columns]],
             GaussCopy(h, g.M))

\* AugmentedMatrix(n_rows, n_columns) followed by m.lines = A.
GaussResult(g) ==
    IF Len(g.A) <= 0 \/ g.n_columns <= 0 THEN ValueError
    ELSE [type |-> "AugmentedMatrix", n_lines |-> Len(g.A), n_columns |-> g.n_columns,
          lines |-> g.A]

\* Lines 393-421: one pass of `for j in range(n_columns-1)`.
GaussColumnStep(h, g) ==
    LET A == Lists(h, g.A)
        r == g.r
        j == g.j
    IN  IF r >= Len(A)
        THEN [heap |-> h, gauss |-> [g EXCEPT !.pc = "done", !.ret = GaussResult(g)]]
        ELSE LET k == PivotScan(A, j + 1, r + 2, r + 1, PyAbs(A[r + 1][j + 1]))
             IN  IF Fraction_eq(A[k][j + 1], PyInt(0))
                 THEN [heap |-> h, gauss |-> [g EXCEPT !.j = j + 1]]
                 ELSE Eval(LAMBDA new :
                          LET ids == [g.A EXCEPT ![k] = g.A[r + 1], ![r + 1] = g.A[k]]
                              at(id) == CHOOSE i \in 1..Len(ids) : ids[i] = id
                          IN  [heap |-> Tup([id \in 1..Len(h) |->
                                            IF \E i \in 1..Len(ids) : ids[i] = id
                                            THEN new[at(id)] ELSE h[id]]),
                               gauss |-> [g EXCEPT !.A = ids, !.r = r + 1, !.j = j + 1,
                                                   !.pivots = Append(@, j)]],
                          GaussPivot(A, r + 1, j + 1, k))

\* Lines 423-425: the return after the last column.
GaussReturnStep(h, g) ==
    LET m == GaussResult(g)
    IN  [heap |-> IF IsException(m) THEN GaussUnwind(h, g.M) ELSE h,
         gauss |-> [g EXCEPT !.pc = "done", !.ret = m]]

GaussInit ==
    /\ \/ \E n \in 0..GaussRows : \E M \in [1..n -> GaussRowValues] : heap = Tup(M)
       \/ heap = GaussExample
    /\ gauss = [pc |-> "call", M |-> Tup([i \in 1..Len(heap) |-> i]), A |-> << >>,
                r |-> 0, j |-> 0, n_columns |-> 0, pivots |-> << >>, ret |-> None]
    /\ pass = None
    /\ mats = [m |-> None, c |-> None]
    /\ last = [op |-> "init", recv |-> "none", outcome |-> "ok", value |-> None, args |-> NoArgs]
    /\ steps = 0
    /\ fa = Fraction(0, 1)
    /\ fb = PyInt(0)
    /\ fres = None
    /\ fop = "init"

GaussCall ==
    /\ gauss.pc = "call"
    /\ \E o \in {GaussCallStep(heap, gauss)} : heap' = o.heap /\ gauss' = o.gauss
    /\ steps' = steps + 1
    /\ UNCHANGED <<mats, last, fractionVars, inverseVars>>

GaussColumn ==
    /\ gauss.pc = "loop"
    /\ gauss.j <= gauss.n_columns - 2
    /\ \E o \in {GaussColumnStep(heap, gauss)} : heap' = o.heap /\ gauss' = o.gauss
    /\ steps' = steps + 1
    /\ UNCHANGED <<mats, last, fractionVars, inverseVars>>

GaussReturn ==
    /\ gauss.pc = "loop"
    /\ gauss.j > gauss.n_columns - 2
    /\ \E o \in {GaussReturnStep(heap, gauss)} : heap' = o.heap /\ gauss' = o.gauss
    /\ steps' = steps + 1
    /\ UNCHANGED <<mats, last, fractionVars, inverseVars>>

GaussNext == GaussCall \/ GaussColumn \/ GaussReturn

SpecGauss == GaussInit /\ [][GaussNext]_vars

----------------------------------------------------------------------------
(* Properties of the gauss_elim machine                                     *)

\* The rows the caller handed over, as they are now.
GaussArgs == Lists(heap, gauss.M)

\* The call has returned an AugmentedMatrix.
GaussReturned == gauss.pc = "done" /\ IsMatrix(gauss.ret)

\* The rows of the returned AugmentedMatrix.
GaussRowsOut == Lists(heap, gauss.ret.lines)

\* M is n rows of n + 1 ints whose first n columns have a non-zero determinant.
IsSystem(M) ==
    /\ Len(M) >= 1
    /\ \A i \in 1..Len(M) : Len(M[i]) = Len(M) + 1 /\ \A j \in 1..Len(M[i]) : IsInt(M[i][j])
    /\ Leibniz(M, 1, 1..Len(M)) # 0

\* Row i of the system M holds for the Fractions x, in integer arithmetic:
\* sum_j M[i][j] * x[j] = M[i][n+1], both sides multiplied by the
\* denominators of x.
RowHolds(M, x, i) ==
    LET n == Len(M)
        D[k \in 0..n] == IF k = 0 THEN 1 ELSE D[k - 1] * x[k].denominator
        lhs[k \in 0..n] ==
            IF k = 0 THEN 0
            ELSE lhs[k - 1] + M[i][k].value * x[k].numerator * (D[n] \div x[k].denominator)
    IN  lhs[n] = M[i][n + 1].value * D[n]

\* C11: for an n-row, (n+1)-column integer input whose first n columns are
\* non-singular, gauss_elim returns the identity in the first n columns and a
\* last column x with A * x = b exactly; for [1,2,5],[3,4,6] the last column
\* is (-4, 9/2).
C11_SolvesSystem ==
    (gauss.pc = "done" /\ IsSystem(GaussArgs)) =>
        /\ IsMatrix(gauss.ret)
        /\ LET n == Len(GaussArgs)
               R == GaussRowsOut
               x == Tup([i \in 1..n |-> R[i][n + 1]])
           IN  /\ Len(R) = n
               /\ \A i \in 1..n : Len(R[i]) = n + 1
               /\ \A i \in 1..n : \A j \in 1..n :
                     R[i][j] = [type |-> "Fraction", numerator |-> (IF i = j THEN 1 ELSE 0),
                                denominator |-> 1]
               /\ \A i \in 1..n : IsFraction(x[i]) /\ x[i].denominator > 0
               /\ \A i \in 1..n : RowHolds(GaussArgs, x, i)
               /\ GaussArgs = GaussExample =>
                     /\ x[1].numerator = -4 /\ x[1].denominator = 1
                     /\ x[2].numerator = 9 /\ x[2].denominator = 2

\* gauss_elim([1,2,5],[3,4,6]) has returned, with last column (-4, 9/2).
C11_Witness ==
    /\ GaussReturned
    /\ GaussArgs = GaussExample
    /\ GaussRowsOut[1][3] = [type |-> "Fraction", numerator |-> -4, denominator |-> 1]
    /\ GaussRowsOut[2][3] = [type |-> "Fraction", numerator |-> 9, denominator |-> 2]

\* C12: applying gauss_elim to the rows of the matrix gauss_elim returned
\* gives a matrix equal to it (Matrix ==), of the same shape.
C12_Idempotent ==
    GaussReturned =>
        \E again \in {gauss_elim(GaussRowsOut)} :
            /\ IsMatrix(again)
            /\ again.n_lines = gauss.ret.n_lines
            /\ again.n_columns = gauss.ret.n_columns
            /\ Matrix_eq(again.rows, GaussRowsOut)

\* gauss_elim has returned the reduction of an input of three rows, with
\* fewer pivots than rows, in which rows were swapped and a cell is not an
\* integer.
C12_Witness ==
    /\ GaussReturned
    /\ Len(gauss.A) = 3
    /\ gauss.r \in 1..2
    /\ gauss.A # Tup([i \in 1..3 |-> 3 + i])
    /\ \E i \in 1..3 : \E j \in 1..gauss.n_columns : GaussRowsOut[i][j].denominator > 1

\* C13: no step of gauss_elim changes a row the caller passed, whether the
\* call returns or raises, and the AugmentedMatrix it returns holds none of
\* the caller's lists.
C13_CallerRowsUntouched ==
    [][/\ gauss'.M = gauss.M
       /\ Lists(heap', gauss'.M) = Lists(heap, gauss.M)
       /\ (gauss'.pc = "done" /\ IsMatrix(gauss'.ret)) =>
             \A i \in 1..Len(gauss'.ret.lines) : \A k \in 1..Len(gauss'.M) :
                 gauss'.ret.lines[i] # gauss'.M[k]]_vars

\* gauss_elim has returned after placing a pivot: its working rows hold
\* Fractions and differ from the caller's rows of ints.
C13_Witness ==
    /\ GaussReturned
    /\ gauss.pivots # << >>
    /\ \A i \in 1..Len(GaussArgs) : \A j \in 1..Len(GaussArgs[i]) : IsInt(GaussArgs[i][j])
    /\ \E i \in 1..Len(GaussArgs) : GaussRowsOut[i][1] # GaussConvert(GaussArgs[i][1])

\* The rows M are not all of the same length.
Ragged(M) == \E i \in 1..Len(M) : Len(M[i]) # Len(M[1])

\* C14: gauss_elim called with rows of unequal length fails with ValueError
\* (not TypeError), before any pivot step is performed.
C14_RaggedIsValueError ==
    (gauss.pc = "done" /\ Ragged(GaussArgs)) =>
        /\ gauss.ret = ValueError
        /\ gauss.pivots = << >>
        /\ gauss.r = 0 /\ gauss.j = 0

\* C18: when gauss_elim returns, every column in which a pivot was placed
\* holds Fraction 1 in the row of that pivot and Fraction 0 in every other
\* row, above and below; the k-th pivot is in row k and the pivot columns
\* increase with k; the result has as many rows, and as many entries in each
\* row, as the input.  Inputs of any rank and any shape are covered.
C18_ReducedEchelon ==
    GaussReturned =>
        LET R == GaussRowsOut
            p == gauss.pivots
            r == gauss.r
        IN  /\ Len(p) = r
            /\ r <= Len(R)
            /\ \A k \in 1..r : \A i \in 1..Len(R) :
                  R[i][p[k] + 1] = [type |-> "Fraction",
                                    numerator |-> (IF i = k THEN 1 ELSE 0), denominator |-> 1]
            /\ \A k \in 1..(r - 1) : p[k] < p[k + 1]
            /\ Len(R) = Len(GaussArgs)
            /\ gauss.ret.n_lines = Len(GaussArgs)
            /\ gauss.ret.n_columns = Len(GaussArgs[1])
            /\ \A i \in 1..Len(R) : Len(R[i]) = Len(GaussArgs[i])

\* gauss_elim has returned for three rows of three ints, more rows than
\* coefficient columns: a pivot was placed in both columns, the first one
\* after a swap (the first row starts with 0), and the last row is a
\* combination of the other two.
C18_Witness ==
    /\ GaussReturned
    /\ Len(GaussArgs) = 3
    /\ Len(GaussArgs[1]) = 3
    /\ gauss.pivots = <<0, 1>>
    /\ GaussArgs[1][1].value = 0
    /\ GaussArgs[1][2].value # 0
    /\ GaussArgs[3][1].value # 0
    /\ GaussRowsOut[3][3].numerator = 0

\* The Fraction x is at least as large in magnitude as the Fraction y.
AtLeast(x, y) == Abs(x.numerator) * y.denominator >= Abs(y.numerator) * x.denominator

\* C19: the pivot cursor r of gauss_elim is 0 when the loop over the columns
\* starts; a pass of the loop for column j (at most the last but one) with
\* r below the number of rows moves on to j + 1 and either places a pivot in
\* column j and adds exactly 1 to r, when the entry of largest magnitude of
\* column j in rows r.. is not zero, or leaves r and every row as they were,
\* when it is zero; r never exceeds the number of rows, no pivot is placed
\* in the last column, and with r equal to the number of rows the next step
\* returns the rows as they are.
C19_PivotCursor ==
    [][LET A    == Lists(heap, gauss.A)
           rows == Len(A)
           r    == gauss.r
           j    == gauss.j
           big  == CHOOSE i \in (r + 1)..rows :
                       \A o \in (r + 1)..rows : AtLeast(A[i][j + 1], A[o][j + 1])
       IN  /\ (gauss.pc = "call" /\ gauss'.pc = "loop") => gauss'.r = 0 /\ gauss'.j = 0
           /\ (gauss.pc = "loop" /\ r < rows /\ j <= gauss.n_columns - 2) =>
                 /\ gauss'.pc = "loop"
                 /\ gauss'.j = j + 1
                 /\ IF A[big][j + 1].numerator # 0
                    THEN /\ gauss'.r = r + 1
                         /\ gauss'.pivots = Append(gauss.pivots, j)
                    ELSE /\ gauss'.r = r
                         /\ gauss'.pivots = gauss.pivots
                         /\ Lists(heap', gauss'.A) = A
           /\ (gauss.pc = "loop" /\ r >= rows) =>
                 /\ r = rows
                 /\ gauss'.pc = "done"
                 /\ IsMatrix(gauss'.ret)
                 /\ Lists(heap', gauss'.ret.lines) = A
           /\ gauss'.pc # "call" =>
                 /\ gauss'.r <= Len(gauss'.A)
                 /\ \A k \in 1..Len(gauss'.pivots) : gauss'.pivots[k] < gauss'.n_columns - 1]_vars

\* The loop has passed the first column, all zeros in two rows, without a
\* pivot and placed a pivot in the second column, taken from the second row.
C19_Witness ==
    /\ gauss.pc = "loop"
    /\ Len(gauss.A) = 2
    /\ gauss.n_columns = 3
    /\ gauss.j = 2
    /\ gauss.r = 1
    /\ gauss.pivots = <<1>>
    /\ GaussArgs[1][2].value = 0

----------------------------------------------------------------------------
(* The Fraction machine: two operands and the outcome of the last operation *)

Nums == (-MaxNum)..MaxNum

Exps == (-MaxExp)..MaxExp

\* The Fractions the constructor builds from integers in Nums.
Fractions == {Fraction(n, d) : n \in Nums, d \in Nums \ {0}}

Ints == {PyInt(n) : n \in Nums}

\* A result small enough to be used as an operand again.
Small(f) == IsFraction(f) /\ Abs(f.numerator) <= MaxNum /\ f.denominator <= MaxNum

\* No matrix exists while the Fraction machine runs.
FractionInit ==
    /\ heap = << >>
    /\ mats = << >>
    /\ last = None
    /\ steps = 0
    /\ fa \in Fractions
    /\ fb \in Fractions \cup Ints
    /\ fres = None
    /\ fop = "init"
    /\ gauss = None
    /\ pass = None

FResult(op, value) ==
    /\ fop' = op
    /\ fres' = value
    /\ UNCHANGED <<fa, fb>>
    /\ UNCHANGED <<matrixVars, gaussVars, inverseVars>>

FConstruct == \E n \in Nums, d \in Nums : FResult("Fraction", Fraction(n, d))

FFromNumber == \E n \in Nums : FResult("from_number", Fraction_from_number(n))

FInverseFrom == \E n \in Nums : FResult("inverse_from", Fraction_inverse_from(n))

FAdd == FResult("add", Fraction_add(fa, fb))

FSub == FResult("sub", Fraction_sub(fa, fb))

FMul == FResult("mul", Fraction_mul(fa, fb))

FTrueDiv == FResult("truediv", Fraction_truediv(fa, fb))

FPow == \E k \in Exps : FResult("pow", Fraction_pow(fa, k))

FNeg == FResult("neg", Fraction_neg(fa))

FAbs == FResult("abs", Fraction_abs(fa))

FPos == FResult("pos", Fraction_pos(fa))

FClone == FResult("clone", Fraction_clone(fa))

\* k + fa, k - fa, k * fa, k / fa with an int k on the left.
FRAdd == \E k \in Ints : FResult("radd", Fraction_radd(fa, k))

FRSub == \E k \in Ints : FResult("rsub", Fraction_rsub(fa, k))

FRMul == \E k \in Ints : FResult("rmul", Fraction_rmul(fa, k))

FRTrueDiv == \E k \in Ints : FResult("rtruediv", Fraction_rtruediv(fa, k))

\* fa < fb, fa == fb, fa > fb, fa <= fb, fa >= fb
FCompare ==
    FResult("compare", [type |-> "compare",
                        lt |-> Fraction_lt(fa, fb),
                        eq |-> Fraction_eq(fa, fb),
                        gt |-> Fraction_gt(fa, fb),
                        le |-> Fraction_le(fa, fb),
                        ge |-> Fraction_ge(fa, fb)])

\* (fa + fb) - fb
FAddSub == FResult("add_sub", Fraction_sub(Fraction_add(fa, fb), fb))

\* (fa * fb) / fb
FMulDiv == FResult("mul_div", Fraction_truediv(Fraction_mul(fa, fb), fb))

\* The program goes on with the result as an operand.
FStoreA ==
    /\ Small(fres)
    /\ fa' = fres
    /\ fop' = "store"
    /\ fres' = None
    /\ UNCHANGED fb
    /\ UNCHANGED <<matrixVars, gaussVars, inverseVars>>

FStoreB ==
    /\ Small(fres)
    /\ fb' = fres
    /\ fop' = "store"
    /\ fres' = None
    /\ UNCHANGED fa
    /\ UNCHANGED <<matrixVars, gaussVars, inverseVars>>

FractionNext ==
    \/ FConstruct \/ FFromNumber \/ FInverseFrom
    \/ FAdd \/ FSub \/ FMul \/ FTrueDiv \/ FPow
    \/ FNeg \/ FAbs \/ FPos \/ FClone
    \/ FRAdd \/ FRSub \/ FRMul \/ FRTrueDiv
    \/ FCompare \/ FAddSub \/ FMulDiv
    \/ FStoreA \/ FStoreB

SpecFraction == FractionInit /\ [][FractionNext]_vars

----------------------------------------------------------------------------
(* Claims about Fraction *)

\* No integer above 1 divides both n and d.
Coprime(n, d) == \A k \in 2..d : ~(n % k = 0 /\ d % k = 0)

Canonical(f) ==
    /\ f.denominator > 0
    /\ Coprime(Abs(f.numerator), f.denominator)
    /\ (f.numerator = 0 => f.denominator = 1)

\* C7: every Fraction the constructor, the arithmetic operators, negate, abs,
\* clone and the reflected operators produce has a positive denominator and
\* numerator and denominator without a common divisor; zero is stored as 0/1.
C7_CanonicalForm ==
    /\ Canonical(fa)
    /\ (IsFraction(fb) => Canonical(fb))
    /\ (IsFraction(fres) => Canonical(fres))

\* A division by a negative, non-integral Fraction produced a Fraction: the
\* constructor was handed a negative denominator and a reducible pair.
C7_Witness ==
    /\ fop = "truediv"
    /\ IsFraction(fb) /\ fb.numerator < 0 /\ fb.denominator > 1
    /\ IsFraction(fres) /\ fres.denominator > 1
    /\ fa.denominator * Abs(fb.numerator) > fres.denominator

\* C8: exactly one of a < b, a == b, a > b holds; a <= b is (a < b or a == b)
\* and a >= b is (a > b or a == b).
C8_Trichotomy ==
    fop = "compare" =>
        /\ Cardinality({r \in {"lt", "eq", "gt"} : fres[r]}) = 1
        /\ fres.le = (fres.lt \/ fres.eq)
        /\ fres.ge = (fres.gt \/ fres.eq)

\* Two different Fractions with different denominators were compared.
C8_Witness ==
    /\ fop = "compare"
    /\ IsFraction(fb) /\ fb.denominator # fa.denominator
    /\ fres.gt /\ fa.numerator < fb.numerator

\* C9: (a + b) - b == a, and (a * b) / b == a for b # 0; the results hold the
\* same numerator and denominator as a.
C9_RoundTrip ==
    /\ fop = "add_sub" =>
          /\ IsFraction(fres)
          /\ Fraction_eq(fres, fa)
          /\ fres.numerator = fa.numerator /\ fres.denominator = fa.denominator
    /\ (fop = "mul_div" /\ Fraction_bool(Coerce(fb))) =>
          /\ IsFraction(fres)
          /\ Fraction_eq(fres, fa)
          /\ fres.numerator = fa.numerator /\ fres.denominator = fa.denominator

\* (a * b) / b was computed for non-integral a and negative non-integral b.
C9_Witness ==
    /\ fop = "mul_div"
    /\ IsFraction(fb) /\ fb.numerator < 0 /\ fb.denominator > 1
    /\ fa.denominator > 1
    /\ fres = fa

\* C10: a division fails with the constructor's ValueError exactly when the
\* divisor is a Fraction with numerator 0 or the int 0, and yields a Fraction
\* otherwise.
ZeroDivisor(v) == (IsInt(v) /\ v.value = 0) \/ (IsFraction(v) /\ v.numerator = 0)

C10_DivisionByZero ==
    fop = "truediv" =>
        /\ ZeroDivisor(fb) => fres = ValueError
        /\ ~ZeroDivisor(fb) => IsFraction(fres)

\* A non-zero Fraction was divided by the Fraction 0/1.
C10_Witness ==
    /\ fop = "truediv"
    /\ IsFraction(fb) /\ fb.numerator = 0
    /\ fa.numerator # 0
    /\ fres = ValueError

=============================================================================
